---------------------------- MODULE Spec2Model ----------------------------
(***************************************************************************)
(* Credential store (src/user.py) and record store (src/expense.py) of the *)
(* expense tracker, as state machines over the two delimited files.        *)
(*                                                                         *)
(* Text that the code converts (str(), int(), float(), "%.2f", strptime)   *)
(* is modelled by what the conversion does:                                *)
(*   - decimal integer text is a sequence of digits (1 is <<1>>),          *)
(*   - a float amount is an integer number of thousandths,                 *)
(*   - amount text with two decimals is <<units, hundredths>>,             *)
(*   - date text is a sequence of one-character strings.                   *)
(* Free text the csv module writes and reads back unchanged (usernames,    *)
(* categories, descriptions) is a TLA+ string.                             *)
(***************************************************************************)
EXTENDS Integers, Sequences, FiniteSets, TLC

VARIABLES
    users,         \* UserManager.users: the in-memory list of User
    usersFile,     \* data rows of users.csv (the header row is implicit)
    registered,    \* history: every (username, password, user_id) create_user appended
    here,          \* history: those appended by the current UserManager object
    nRestarts,     \* how many times a UserManager was constructed again
    expensesFile,  \* data rows of expenses.csv (the header row is implicit)
    nAdds,         \* history: per user, the number of add_expense calls that returned
    deleted,       \* history: per user, whether delete_expense removed a record
    nEdits,        \* history: the number of edit_expense calls that returned
    clients,       \* per client, where its add_expense call stands and its locals
    last           \* the last call: operation, arguments, exception, returned value

vars == <<users, usersFile, registered, here, nRestarts, expensesFile, nAdds,
          deleted, nEdits, clients, last>>

userVars == <<users, usersFile, registered, here, nRestarts>>
expenseVars == <<expensesFile, nAdds, deleted, nEdits, clients>>

(***************************************************************************)
(* Bounds and input sets                                                   *)
(***************************************************************************)
MaxUsers == 3
MaxRestarts == 1
MaxAdds == 3
MaxEdits == 1

Usernames == {"alice", "Alice", "bob"}
Passwords == {"Secret123", "pw"}
Salts == {1, 2}

None == [none |-> TRUE]
NoExc == "none"

\* the clients that call add_expense at the same time (two requests served
\* by the threads of app.py, or two runs of main.py on one expenses.csv)
Clients == {"c1", "c2"}

\* a client outside add_expense
Idle == [pc |-> "idle", exp |-> None, all_exp |-> <<>>]

(***************************************************************************)
(* str() and int() on non-negative integers                                *)
(***************************************************************************)
RECURSIVE Str(_)
Str(n) == IF n < 10 THEN <<n>> ELSE Str(n \div 10) \o <<n % 10>>

RECURSIVE ParseInt(_)
ParseInt(ds) == IF Len(ds) = 1 THEN ds[1]
                ELSE 10 * ParseInt(SubSeq(ds, 1, Len(ds) - 1)) + ds[Len(ds)]

SetMax(S) == IF S = {} THEN 0
             ELSE LET x == CHOOSE y \in S : \A z \in S : z <= y IN x

(***************************************************************************)
(* Credential store                                                        *)
(***************************************************************************)

\* hashlib.pbkdf2_hmac('sha256', pwd, salt, 100_000): a one-way function of
\* (password, salt), free of collisions on the modelled inputs.
Pbkdf2(password, salt) == <<"pbkdf2_hmac_sha256", password, salt>>

\* _hash_password(password) with salt = os.urandom(16): "salthex$dkhex",
\* kept as the two parts that split('$') yields.
HashPassword(password, salt) == [salt_hex |-> salt, hash_hex |-> Pbkdf2(password, salt)]

\* mutant: the derivation is recomputed with a salt other than the stored one
VerifyPasswordOtherSalt(stored, provided) == Pbkdf2(provided, 0) = stored.hash_hex

\* mutant: the comparison with the stored hash is dropped
VerifyPasswordAny(stored, provided) == Pbkdf2(provided, stored.salt_hex) # <<>>

\* _verify_password(stored, provided); every stored value comes from
\* _hash_password, so split('$') and unhexlify never raise into the except
VerifyPassword(stored, provided) == Pbkdf2(provided, stored.salt_hex) = stored.hash_hex

\* str.lower() on the modelled usernames
Lower(name) == IF name = "Alice" THEN "alice" ELSE name

\* mutant: usernames are compared ignoring letter case
FindByUsernameIgnoreCase(us, username) ==
    IF \E i \in 1..Len(us) : Lower(us[i].username) = Lower(username)
    THEN us[CHOOSE i \in 1..Len(us) :
                /\ Lower(us[i].username) = Lower(username)
                /\ \A j \in 1..(i - 1) : Lower(us[j].username) # Lower(username)]
    ELSE None

\* find_by_username(username): the first user with exactly that username
FindByUsername(us, username) ==
    IF \E i \in 1..Len(us) : us[i].username = username
    THEN us[CHOOSE i \in 1..Len(us) :
                /\ us[i].username = username
                /\ \A j \in 1..(i - 1) : us[j].username # username]
    ELSE None

\* authenticate(username, password) on the list us
Authenticate(us, username, password) ==
    LET user == FindByUsername(us, username) IN
    IF user = None THEN None
    ELSE IF VerifyPassword(user.hashed_password, password) THEN user
    ELSE None

\* one row of users.csv as writer.writerow([u.user_id, u.username, u.hashed_password])
UserRow(u) == [user_id |-> Str(u.user_id), username |-> u.username,
               hashed_password |-> u.hashed_password]

\* _load: User(int(r['user_id']), r['username'], r['hashed_password']) per row
LoadUsers(rows) ==
    [i \in 1..Len(rows) |->
        [user_id |-> ParseInt(rows[i].user_id), username |-> rows[i].username,
         hashed_password |-> rows[i].hashed_password]]

\* _save: open(path, 'w'), the header, then per user writerow followed by
\* print('Users loaded:', len(um.users)). The name um is bound only when user.py
\* runs as a script, so the print raises NameError after the first row; the
\* with block closes the file with what was written so far.
SaveUsers(us) ==
    IF us = <<>> THEN [file |-> <<>>, exc |-> NoExc]
    ELSE [file |-> <<UserRow(us[1])>>, exc |-> "NameError"]

\* max([u.user_id for u in self.users], default=0) + 1
NextUserId(us) == SetMax({us[i].user_id : i \in 1..Len(us)}) + 1

\* create_user(username, password); salt is the value os.urandom(16) returns
CreateUser(username, password, salt) ==
    /\ IF FindByUsername(users, username) # None
       THEN /\ last' = [op |-> "create_user", username |-> username,
                        password |-> password, exc |-> "ValueError",
                        value |-> None]
            /\ UNCHANGED userVars
       ELSE LET user == [user_id |-> NextUserId(users), username |-> username,
                         hashed_password |-> HashPassword(password, salt)]
                saved == SaveUsers(Append(users, user))
            IN /\ Len(users) < MaxUsers
               /\ users' = Append(users, user)
               /\ usersFile' = saved.file
               /\ registered' = registered \cup
                     {[username |-> username, password |-> password,
                       user_id |-> user.user_id]}
               /\ here' = here \cup
                     {[username |-> username, password |-> password,
                       user_id |-> user.user_id]}
               /\ UNCHANGED nRestarts
               /\ last' = [op |-> "create_user", username |-> username,
                           password |-> password, exc |-> saved.exc,
                           value |-> IF saved.exc = NoExc
                                     THEN [user_id |-> user.user_id,
                                           username |-> user.username]
                                     ELSE None]
    /\ UNCHANGED expenseVars

\* authenticate(username, password) as a call
AuthenticateCall(username, password) ==
    /\ last' = [op |-> "authenticate", username |-> username,
                password |-> password, exc |-> NoExc,
                value |-> LET u == Authenticate(users, username, password) IN
                          IF u = None THEN None
                          ELSE [user_id |-> u.user_id, username |-> u.username]]
    /\ UNCHANGED userVars
    /\ UNCHANGED expenseVars

\* UserManager(path) constructed again over the same file: _ensure_file finds
\* the file, _load reads it
NewUserManager ==
    /\ nRestarts < MaxRestarts
    /\ users' = LoadUsers(usersFile)
    /\ here' = {}
    /\ nRestarts' = nRestarts + 1
    /\ UNCHANGED <<usersFile, registered>>
    /\ last' = [op |-> "UserManager", username |-> "", password |-> "",
                exc |-> NoExc, value |-> None]
    /\ UNCHANGED expenseVars

UserIds == {1, 2}

InitCred ==
    /\ users = <<>>
    /\ usersFile = <<>>
    /\ registered = {}
    /\ here = {}
    /\ nRestarts = 0
    /\ expensesFile = <<>>
    /\ nAdds = [u \in UserIds |-> 0]
    /\ deleted = [u \in UserIds |-> FALSE]
    /\ nEdits = 0
    /\ clients = [c \in Clients |-> Idle]
    /\ last = [op |-> "init", username |-> "", password |-> "", exc |-> NoExc,
               value |-> None]

NextCred ==
    \/ \E username \in Usernames, password \in Passwords, salt \in Salts :
          CreateUser(username, password, salt)
    \/ \E username \in Usernames, password \in Passwords :
          AuthenticateCall(username, password)
    \/ NewUserManager

SpecCred == InitCred /\ [][NextCred]_vars

(***************************************************************************)
(* Record store: text conversions                                          *)
(***************************************************************************)
CATEGORIES == <<"Food", "Transport", "Rent", "Utilities", "Shopping", "Other">>

InCategories(category) == \E i \in 1..Len(CATEGORIES) : CATEGORIES[i] = category

DigitChars == {"0", "1", "2", "3", "4", "5", "6", "7", "8", "9"}

DigitValue(c) ==
    CASE c = "0" -> 0 [] c = "1" -> 1 [] c = "2" -> 2 [] c = "3" -> 3
      [] c = "4" -> 4 [] c = "5" -> 5 [] c = "6" -> 6 [] c = "7" -> 7
      [] c = "8" -> 8 [] c = "9" -> 9

RECURSIVE DigitsValue(_)
DigitsValue(t) == IF t = <<>> THEN 0
                  ELSE 10 * DigitsValue(SubSeq(t, 1, Len(t) - 1)) + DigitValue(t[Len(t)])

\* the %m directive: 1[0-2] | 0[1-9] | [1-9]
MatchesMonth(t) ==
    \/ Len(t) = 2 /\ t[1] = "1" /\ t[2] \in {"0", "1", "2"}
    \/ Len(t) = 2 /\ t[1] = "0" /\ t[2] \in DigitChars \ {"0"}
    \/ Len(t) = 1 /\ t[1] \in DigitChars \ {"0"}

\* the %d directive: 3[0-1] | [1-2]\d | 0[1-9] | [1-9] | " "[1-9]
MatchesDay(t) ==
    \/ Len(t) = 2 /\ t[1] = "3" /\ t[2] \in {"0", "1"}
    \/ Len(t) = 2 /\ t[1] \in {"1", "2"} /\ t[2] \in DigitChars
    \/ Len(t) = 2 /\ t[1] \in {"0", " "} /\ t[2] \in DigitChars \ {"0"}
    \/ Len(t) = 1 /\ t[1] \in DigitChars \ {"0"}

IsLeap(y) == (y % 4 = 0 /\ y % 100 # 0) \/ y % 400 = 0

DaysInMonth(y, m) ==
    IF m = 2 THEN (IF IsLeap(y) THEN 29 ELSE 28)
    ELSE IF m \in {4, 6, 9, 11} THEN 30 ELSE 31

\* the text after a leading blank, as int() reads " 5"
Stripped(t) == IF t[1] = " " THEN Tail(t) ELSE t

\* datetime.strptime(text, '%Y-%m-%d'): four year digits, '-', a month, '-',
\* a day, nothing left over, and the three numbers a date of the calendar.
\* ok is FALSE where strptime raises ValueError; key orders the dates.
Strptime(text) ==
    LET n == Len(text)
        dash == IF n >= 7 /\ text[7] = "-" THEN 7 ELSE 8
        shaped == /\ n >= 8
                  /\ \A i \in 1..4 : text[i] \in DigitChars
                  /\ text[5] = "-"
                  /\ n > dash
                  /\ text[dash] = "-"
                  /\ MatchesMonth(SubSeq(text, 6, dash - 1))
                  /\ MatchesDay(SubSeq(text, dash + 1, n))
        y == DigitsValue(SubSeq(text, 1, 4))
        m == DigitsValue(SubSeq(text, 6, dash - 1))
        d == DigitsValue(Stripped(SubSeq(text, dash + 1, n)))
    IN IF shaped /\ y >= 1 /\ d <= DaysInMonth(y, m)
       THEN [ok |-> TRUE, key |-> y * 10000 + m * 100 + d]
       ELSE [ok |-> FALSE, key |-> 0]

\* f"{amount:.2f}" of a non-negative amount in thousandths: <<units, hundredths>>.
\* A tie (a last digit 5) goes by the binary double nearest the decimal; the
\* amounts drawn below have none.
Format2f(amount) ==
    LET h == (amount + 5) \div 10 IN <<h \div 100, h % 100>>

\* float() of amount text with two decimals, in thousandths
ParseFloat(t) == t[1] * 1000 + t[2] * 10

\* Expense.to_dict
ToDict(e) ==
    [expense_id |-> e.expense_id, user_id |-> e.user_id,
     amount |-> Format2f(e.amount), date |-> e.date,
     category |-> e.category, description |-> e.description]

\* _load_all: Expense(r['expense_id'], r['user_id'], float(r['amount']), ...)
\* per row; every row _write_all wrote has an amount float() reads
LoadAll(rows) ==
    [i \in 1..Len(rows) |->
        [expense_id |-> rows[i].expense_id, user_id |-> rows[i].user_id,
         amount |-> ParseFloat(rows[i].amount), date |-> rows[i].date,
         category |-> rows[i].category, description |-> rows[i].description]]

\* _write_all: the header, then to_dict of every expense
WriteAll(expenses) == [i \in 1..Len(expenses) |-> ToDict(expenses[i])]

(***************************************************************************)
(* Record store: operations                                                *)
(***************************************************************************)
OwnedBy(e, user_id) == e.user_id = Str(user_id)

HasKey(e, user_id, expense_id) ==
    e.user_id = Str(user_id) /\ e.expense_id = Str(expense_id)

\* mutant: an unstable sort, e goes before the elements of an equal key
RECURSIVE InsertByDateUnstable(_, _)
InsertByDateUnstable(sorted, e) ==
    IF sorted = <<>> THEN <<e>>
    ELSE IF Strptime(Head(sorted).date).key < Strptime(e.date).key
         THEN <<Head(sorted)>> \o InsertByDateUnstable(Tail(sorted), e)
         ELSE <<e>> \o sorted

\* list.sort(key=...) is stable: e goes after every element whose key is <=
RECURSIVE InsertByDate(_, _)
InsertByDate(sorted, e) ==
    IF sorted = <<>> THEN <<e>>
    ELSE IF Strptime(Head(sorted).date).key <= Strptime(e.date).key
         THEN <<Head(sorted)>> \o InsertByDate(Tail(sorted), e)
         ELSE <<e>> \o sorted

RECURSIVE SortByDate(_)
SortByDate(es) ==
    IF es = <<>> THEN <<>>
    ELSE InsertByDate(SortByDate(SubSeq(es, 1, Len(es) - 1)), es[Len(es)])

\* list_for_user(user_id)
ListForUser(rows, user_id) ==
    SortByDate(SelectSeq(LoadAll(rows), LAMBDA e : OwnedBy(e, user_id)))

\* mutant: the next id is the number of the user's records plus one
NextExpenseIdByCount(rows, user_id) ==
    Len(SelectSeq(LoadAll(rows), LAMBDA e : OwnedBy(e, user_id))) + 1

\* mutant: the next id is taken over every user's records
NextExpenseIdGlobal(rows, user_id) ==
    SetMax({ParseInt(rows[i].expense_id) : i \in 1..Len(rows)}) + 1

\* _next_expense_id_for_user(user_id)
NextExpenseIdForUser(rows, user_id) ==
    LET all == LoadAll(rows)
        user_exp == {ParseInt(all[i].expense_id) :
                        i \in {j \in 1..Len(all) : OwnedBy(all[j], user_id)}}
    IN IF user_exp # {} THEN SetMax(user_exp) + 1 ELSE 1

\* find_expense(user_id, expense_id): the first match of _load_all, or None
FindExpense(rows, user_id, expense_id) ==
    LET all == LoadAll(rows) IN
    IF \E i \in 1..Len(all) : HasKey(all[i], user_id, expense_id)
    THEN all[CHOOSE i \in 1..Len(all) :
                /\ HasKey(all[i], user_id, expense_id)
                /\ \A j \in 1..(i - 1) : ~HasKey(all[j], user_id, expense_id)]
    ELSE None

TotalAdds == nAdds[1] + nAdds[2]

Outcome(rows, exc, msg, value) ==
    [rows |-> rows, exc |-> exc, msg |-> msg, value |-> value]

\* add_expense(user_id, amount, date, category, description) on the table rows:
\* the table it leaves, the exception it raises or the Expense it returns
AddExpense(rows, user_id, amount, date, category, description) ==
    IF ~InCategories(category)
    THEN Outcome(rows, "ValueError", "Invalid category", None)
    ELSE IF ~Strptime(date).ok
    THEN Outcome(rows, "ValueError", "time data does not match format", None)
    ELSE IF amount <= 0
    THEN Outcome(rows, "ValueError", "Amount must be positive", None)
    ELSE LET eid == NextExpenseIdForUser(rows, user_id)
             exp == [expense_id |-> Str(eid), user_id |-> Str(user_id),
                     amount |-> amount, date |-> date,
                     category |-> category, description |-> description]
             all_exp == Append(LoadAll(rows), exp)
         IN Outcome(WriteAll(all_exp), NoExc, "", exp)

\* mutant: the category of an edit is stored without the membership test
ApplyUpdatesUncheckedCategory(e, kwargs) ==
    LET has(f) == f \in DOMAIN kwargs
        edited == [expense_id |-> e.expense_id, user_id |-> e.user_id,
                   amount |-> IF has("amount") THEN kwargs.amount ELSE e.amount,
                   date |-> IF has("date") THEN kwargs.date ELSE e.date,
                   category |-> IF has("category") THEN kwargs.category
                                ELSE e.category,
                   description |-> IF has("description") THEN kwargs.description
                                   ELSE e.description]
    IN IF has("amount") /\ kwargs.amount <= 0
       THEN [exc |-> "ValueError", msg |-> "Amount must be positive", e |-> e]
       ELSE IF has("date") /\ ~Strptime(kwargs.date).ok
       THEN [exc |-> "ValueError", msg |-> "time data does not match format", e |-> e]
       ELSE [exc |-> NoExc, msg |-> "", e |-> edited]

\* the assignments of edit_expense to the matching expense e, in the code's
\* order: the exception the first bad field raises, or the edited expense
ApplyUpdates(e, kwargs) ==
    LET has(f) == f \in DOMAIN kwargs
        edited == [expense_id |-> e.expense_id, user_id |-> e.user_id,
                   amount |-> IF has("amount") THEN kwargs.amount ELSE e.amount,
                   date |-> IF has("date") THEN kwargs.date ELSE e.date,
                   category |-> IF has("category") THEN kwargs.category
                                ELSE e.category,
                   description |-> IF has("description") THEN kwargs.description
                                   ELSE e.description]
    IN IF has("amount") /\ kwargs.amount <= 0
       THEN [exc |-> "ValueError", msg |-> "Amount must be positive", e |-> e]
       ELSE IF has("date") /\ ~Strptime(kwargs.date).ok
       THEN [exc |-> "ValueError", msg |-> "time data does not match format", e |-> e]
       ELSE IF has("category") /\ ~InCategories(kwargs.category)
       THEN [exc |-> "ValueError", msg |-> "Invalid category", e |-> e]
       ELSE [exc |-> NoExc, msg |-> "", e |-> edited]

\* edit_expense(user_id, expense_id, **kwargs) on the table rows
EditExpense(rows, user_id, expense_id, kwargs) ==
    LET all_exp == LoadAll(rows)
        found == \E i \in 1..Len(all_exp) : HasKey(all_exp[i], user_id, expense_id)
        at == CHOOSE i \in 1..Len(all_exp) :
                 /\ HasKey(all_exp[i], user_id, expense_id)
                 /\ \A j \in 1..(i - 1) : ~HasKey(all_exp[j], user_id, expense_id)
    IN IF ~found
       THEN Outcome(rows, "KeyError", "Expense not found", None)
       ELSE LET r == ApplyUpdates(all_exp[at], kwargs) IN
            IF r.exc # NoExc
            THEN Outcome(rows, r.exc, r.msg, None)
            ELSE Outcome(WriteAll([all_exp EXCEPT ![at] = r.e]), NoExc, "", r.e)

\* mutant: the records to drop are matched on expense_id alone
DeleteExpenseAnyUser(rows, user_id, expense_id) ==
    LET all_exp == LoadAll(rows)
        new_list == SelectSeq(all_exp, LAMBDA e : e.expense_id # Str(expense_id))
    IN IF Len(new_list) = Len(all_exp)
       THEN Outcome(rows, NoExc, "", FALSE)
       ELSE Outcome(WriteAll(new_list), NoExc, "", TRUE)

\* delete_expense(user_id, expense_id) on the table rows
DeleteExpense(rows, user_id, expense_id) ==
    LET all_exp == LoadAll(rows)
        new_list == SelectSeq(all_exp, LAMBDA e : ~HasKey(e, user_id, expense_id))
    IN IF Len(new_list) = Len(all_exp)
       THEN Outcome(rows, NoExc, "", FALSE)
       ELSE Outcome(WriteAll(new_list), NoExc, "", TRUE)

\* what the last call was and how it ended
Call(op, out) == [op |-> op, exc |-> out.exc, msg |-> out.msg, value |-> out.value]

\* a call of add_expense
Add(user_id, amount, date, category, description) ==
    \E out \in {AddExpense(expensesFile, user_id, amount, date, category,
                          description)} :
       /\ out.exc = NoExc => TotalAdds < MaxAdds
       /\ expensesFile' = out.rows
       /\ nAdds' = IF out.exc = NoExc THEN [nAdds EXCEPT ![user_id] = @ + 1]
                   ELSE nAdds
       /\ last' = Call("add", out)
       /\ UNCHANGED <<deleted, nEdits, clients>>
       /\ UNCHANGED userVars

\* a call of edit_expense
Edit(user_id, expense_id, kwargs) ==
    \E out \in {EditExpense(expensesFile, user_id, expense_id, kwargs)} :
       /\ out.exc = NoExc => nEdits < MaxEdits
       /\ expensesFile' = out.rows
       /\ nEdits' = IF out.exc = NoExc THEN nEdits + 1 ELSE nEdits
       /\ last' = Call("edit", out)
       /\ UNCHANGED <<nAdds, deleted, clients>>
       /\ UNCHANGED userVars

\* a call of delete_expense
Delete(user_id, expense_id) ==
    \E out \in {DeleteExpense(expensesFile, user_id, expense_id)} :
       /\ expensesFile' = out.rows
       /\ deleted' = IF out.value THEN [deleted EXCEPT ![user_id] = TRUE]
                     ELSE deleted
       /\ last' = Call("delete", out)
       /\ UNCHANGED <<nAdds, nEdits, clients>>
       /\ UNCHANGED userVars

\* the path of the table an ExpenseManager() reads and writes
EXPENSES_CSV == "expenses.csv"

\* export_user_expenses(user_id, out_path): list_for_user, then the header
\* and to_dict of every listed expense written to out_path, which the caller
\* chooses and which is opened for writing whatever it names.  rows is the
\* table at EXPENSES_CSV after the call, value the table at out_path after
\* the call (the call itself returns None).
ExportUserExpenses(rows, user_id, out_path) ==
    LET written == WriteAll(ListForUser(rows, user_id)) IN
    Outcome(IF out_path = EXPENSES_CSV THEN written ELSE rows, NoExc, "", written)

\* a call of export_user_expenses
Export(user_id, out_path) ==
    \E out \in {ExportUserExpenses(expensesFile, user_id, out_path)} :
       /\ expensesFile' = out.rows
       /\ last' = Call("export", out)
       /\ UNCHANGED <<nAdds, deleted, nEdits, clients>>
       /\ UNCHANGED userVars

\* a call of list_for_user: it reads the table and returns the sorted list
List(user_id) ==
    /\ last' = Call("list", Outcome(expensesFile, NoExc, "",
                                    ListForUser(expensesFile, user_id)))
    /\ UNCHANGED expenseVars
    /\ UNCHANGED userVars

\* the add_expense calls that are under way
Started == Cardinality({c \in Clients : clients[c].pc # "idle"})

\* add_expense up to the Expense it builds: the three checks, then
\* _next_expense_id_for_user, which reads the table a first time; a call
\* that raises ends here and has written nothing
AddBegin(c, user_id, amount, date, category, description) ==
    /\ clients[c].pc = "idle"
    /\ \E out \in {AddExpense(expensesFile, user_id, amount, date, category,
                               description)} :
          IF out.exc # NoExc
          THEN /\ last' = Call("add", out)
               /\ UNCHANGED clients
          ELSE /\ TotalAdds + Started < MaxAdds
               /\ clients' = [clients EXCEPT ![c] =
                                 [pc |-> "computed", exp |-> out.value,
                                  all_exp |-> <<>>]]
               /\ UNCHANGED last
    /\ UNCHANGED <<expensesFile, nAdds, deleted, nEdits>>
    /\ UNCHANGED userVars

\* all_exp = self._load_all(): the table is read a second time
AddLoad(c) ==
    /\ clients[c].pc = "computed"
    /\ clients' = [clients EXCEPT ![c].pc = "loaded",
                                  ![c].all_exp = LoadAll(expensesFile)]
    /\ UNCHANGED <<expensesFile, nAdds, deleted, nEdits, last>>
    /\ UNCHANGED userVars

\* all_exp.append(exp); self._write_all(all_exp); return exp
AddWrite(c) ==
    /\ clients[c].pc = "loaded"
    /\ \E out \in {Outcome(WriteAll(Append(clients[c].all_exp, clients[c].exp)),
                            NoExc, "", clients[c].exp)} :
          /\ expensesFile' = out.rows
          /\ last' = Call("add", out)
    /\ nAdds' = [nAdds EXCEPT ![ParseInt(clients[c].exp.user_id)] = @ + 1]
    /\ clients' = [clients EXCEPT ![c] = Idle]
    /\ UNCHANGED <<deleted, nEdits>>
    /\ UNCHANGED userVars

(***************************************************************************)
(* Record store: inputs and specification                                  *)
(***************************************************************************)
D_2024_01_01 == <<"2", "0", "2", "4", "-", "0", "1", "-", "0", "1">>
D_2024_03_05 == <<"2", "0", "2", "4", "-", "0", "3", "-", "0", "5">>
D_2024_3_5 == <<"2", "0", "2", "4", "-", "3", "-", "5">>
D_2024_13_01 == <<"2", "0", "2", "4", "-", "1", "3", "-", "0", "1">>
D_2023_02_29 == <<"2", "0", "2", "3", "-", "0", "2", "-", "2", "9">>

Request(amount, date, category, description) ==
    [amount |-> amount, date |-> date, category |-> category,
     description |-> description]

\* the arguments drawn for add_expense; amounts are in thousandths
AddRequests ==
    { Request(42500, D_2024_03_05, "Food", "lunch"),
      Request(10000, D_2024_01_01, "Transport", "bus"),
      Request(4, D_2024_3_5, "Food", "lunch"),
      Request(0, D_2024_03_05, "Food", "lunch"),
      Request(-500, D_2024_01_01, "Transport", "bus"),
      Request(10000, D_2024_01_01, "Gadgets", "bus"),
      Request(42500, D_2024_13_01, "Food", "lunch") }

ExpenseIds == 1..MaxAdds

\* the keyword arguments drawn for edit_expense
EditUpdates ==
    { [amount |-> 4, category |-> "Rent"],
      [date |-> D_2024_01_01, description |-> "taxi"],
      [amount |-> 10000, date |-> D_2023_02_29],
      [amount |-> 0, description |-> "taxi"],
      [date |-> D_2024_3_5, category |-> "Gadgets"],
      <<>> }

Init ==
    /\ users = <<>>
    /\ usersFile = <<>>
    /\ registered = {}
    /\ here = {}
    /\ nRestarts = 0
    /\ expensesFile = <<>>
    /\ nAdds = [u \in UserIds |-> 0]
    /\ deleted = [u \in UserIds |-> FALSE]
    /\ nEdits = 0
    /\ clients = [c \in Clients |-> Idle]
    /\ last = [op |-> "init", exc |-> NoExc, msg |-> "", value |-> None]

Next ==
    \/ \E user_id \in UserIds, r \in AddRequests :
          Add(user_id, r.amount, r.date, r.category, r.description)
    \/ \E user_id \in UserIds, expense_id \in ExpenseIds, kwargs \in EditUpdates :
          Edit(user_id, expense_id, kwargs)
    \/ \E user_id \in UserIds, expense_id \in ExpenseIds :
          Delete(user_id, expense_id)

Spec == Init /\ [][Next]_vars

\* the file names drawn for out_path: the one main.py suggests, and the
\* name of the table itself
OutPaths == {"my_expenses.csv", EXPENSES_CSV}

\* the record store with list and export as steps of their own
NextRead ==
    \/ Next
    \/ \E user_id \in UserIds : List(user_id)
    \/ \E user_id \in UserIds, out_path \in OutPaths : Export(user_id, out_path)

SpecRead == Init /\ [][NextRead]_vars

\* the record store under two clients whose add_expense calls interleave at
\* the reads and the write of the table
NextRace ==
    \/ \E c \in Clients, user_id \in UserIds, r \in AddRequests :
          AddBegin(c, user_id, r.amount, r.date, r.category, r.description)
    \/ \E c \in Clients : AddLoad(c)
    \/ \E c \in Clients : AddWrite(c)

SpecRace == Init /\ [][NextRace]_vars

(***************************************************************************)
(* Claims about the credential store (checked under SpecCred)              *)
(***************************************************************************)

\* C1 (as claimed): create_user with a username not yet in the list returns,
\* without raising, the new User, whose user_id is 1 + the largest user_id in
\* the list (1 for an empty list).
C1_RegisterReturnsNextId ==
    [][(last'.op = "create_user"
        /\ \A i \in 1..Len(users) : users[i].username # last'.username)
       => /\ last'.exc = NoExc
          /\ last'.value # None
          /\ \A i \in 1..Len(users) : users[i].user_id < last'.value.user_id
          /\ \/ last'.value.user_id = 1
             \/ \E i \in 1..Len(users) :
                   users[i].user_id = last'.value.user_id - 1]_vars

\* C2 (as claimed): the persisted users table holds a row for every user
\* registered so far, so a store constructed over the same file contains and
\* authenticates each of them.
C2_EveryRegisteredUserPersisted ==
    \A r \in registered :
        /\ \E i \in 1..Len(usersFile) :
              /\ usersFile[i].username = r.username
              /\ ParseInt(usersFile[i].user_id) = r.user_id
        /\ Authenticate(LoadUsers(usersFile), r.username, r.password) # None

\* C3: authenticate(username, password) after create_user(username, password)
\* on the same store returns the user registered under that username, whatever
\* was registered in between.
C3_AuthenticateAfterRegister ==
    /\ \A r \in here :
          LET u == Authenticate(users, r.username, r.password) IN
          /\ u # None
          /\ u.user_id = r.user_id
          /\ u.username = r.username
    /\ \A r \in here :
          (last.op = "authenticate" /\ last.username = r.username
             /\ last.password = r.password)
          => last.value = [user_id |-> r.user_id, username |-> r.username]

C3_Witness ==
    /\ last.op = "authenticate"
    /\ last.value # None
    /\ \E r \in here :
          /\ r.username = last.username
          /\ r.password = last.password
          /\ r.user_id = last.value.user_id
          /\ \E r2 \in here : r2.user_id > r.user_id

\* C4: create_user with a username already in the list (exact match) raises
\* ValueError whatever the password, and leaves the list and the file as they
\* were; a username that differs only in letter case is no duplicate and is
\* appended.
C4_DuplicateUsernameRejected ==
    [][last'.op = "create_user"
       => IF \E i \in 1..Len(users) : users[i].username = last'.username
          THEN /\ last'.exc = "ValueError"
               /\ users' = users
               /\ usersFile' = usersFile
          ELSE /\ last'.exc # "ValueError"
               /\ Len(users') = Len(users) + 1
               /\ users'[Len(users')].username = last'.username]_vars

C4_Witness ==
    /\ last.op = "create_user"
    /\ last.exc = "ValueError"
    /\ \E i, j \in 1..Len(users) :
          /\ users[i].username = "alice"
          /\ users[j].username = "Alice"
          /\ users[i].user_id # users[j].user_id

\* C5: authenticate returns a user only for a username registered with exactly
\* that password; a wrong password and an unknown username both give None, and
\* the call never raises.
C5_AuthenticateOnlyOnMatch ==
    last.op = "authenticate"
    => /\ last.exc = NoExc
       /\ last.value # None
          => \E r \in registered :
                /\ r.username = last.username
                /\ r.password = last.password
                /\ r.user_id = last.value.user_id
                /\ last.value.username = last.username
       /\ (\A r \in registered :
              r.username # last.username \/ r.password # last.password)
          => last.value = None

C5_Witness ==
    /\ last.op = "authenticate"
    /\ last.value = None
    /\ last.exc = NoExc
    /\ \E i \in 1..Len(users) : users[i].username = last.username
    /\ \E r \in registered :
          r.username = last.username /\ r.password # last.password

(***************************************************************************)
(* Claims about the record store (checked under Spec)                      *)
(***************************************************************************)
RowHasKey(row, user_id, expense_id) ==
    ParseInt(row.user_id) = user_id /\ ParseInt(row.expense_id) = expense_id

RowsOf(rows, user_id) == {i \in 1..Len(rows) : ParseInt(rows[i].user_id) = user_id}

KeyStored(rows, user_id, expense_id) ==
    \E i \in 1..Len(rows) : RowHasKey(rows[i], user_id, expense_id)

\* C6: no two rows of the persisted table share (user_id, expense_id).
C6_CompositeKeyUnique ==
    \A i, j \in 1..Len(expensesFile) :
        (/\ expensesFile[i].user_id = expensesFile[j].user_id
         /\ expensesFile[i].expense_id = expensesFile[j].expense_id) => i = j

\* the same expense_id under two users, after a delete and an edit
C6_Witness ==
    /\ \E i, j \in 1..Len(expensesFile) :
          /\ expensesFile[i].expense_id = expensesFile[j].expense_id
          /\ expensesFile[i].user_id # expensesFile[j].user_id
    /\ \E u \in UserIds : deleted[u]
    /\ nEdits > 0

\* C7: for a user with no deletion, the next id is the number of that user's
\* successful adds plus one and the ids 1..N were given in order, whatever was
\* added for other users; and every add that succeeds appends a record whose id
\* is 1 + the largest id stored for that user (1 when there is none).
C7_NextIdAfterAdds ==
    \A u \in UserIds :
       /\ ~deleted[u] =>
             /\ NextExpenseIdForUser(expensesFile, u) = nAdds[u] + 1
             /\ Cardinality(RowsOf(expensesFile, u)) = nAdds[u]
             /\ \A i \in RowsOf(expensesFile, u) :
                   ParseInt(expensesFile[i].expense_id) =
                      Cardinality({j \in RowsOf(expensesFile, u) : j <= i})
       /\ \A r \in AddRequests :
             LET out == AddExpense(expensesFile, u, r.amount, r.date, r.category,
                                   r.description)
                 stored == {ParseInt(expensesFile[i].expense_id) :
                               i \in RowsOf(expensesFile, u)}
             IN out.exc = NoExc =>
                   /\ Len(out.rows) = Len(expensesFile) + 1
                   /\ RowHasKey(out.rows[Len(out.rows)], u, ParseInt(out.value.expense_id))
                   /\ \A k \in stored : k < ParseInt(out.value.expense_id)
                   /\ \/ ParseInt(out.value.expense_id) = 1
                      \/ ParseInt(out.value.expense_id) - 1 \in stored

\* two adds for user 1 with an add for user 2 in between, and no deletion
C7_Witness ==
    /\ last.op = "add" /\ last.exc = NoExc
    /\ nAdds[1] = 2 /\ nAdds[2] = 1
    /\ ~deleted[1] /\ ~deleted[2]
    /\ Len(expensesFile) = 3
    /\ ParseInt(expensesFile[1].user_id) = 1
    /\ ParseInt(expensesFile[2].user_id) = 2
    /\ ParseInt(expensesFile[3].user_id) = 1

\* a date in YYYY-MM-DD form: four digits, '-', two digits, '-', two digits,
\* naming a day of the calendar
WellFormedDate(text) ==
    /\ Len(text) = 10
    /\ \A i \in {1, 2, 3, 4, 6, 7, 9, 10} : text[i] \in DigitChars
    /\ text[5] = "-" /\ text[8] = "-"
    /\ LET y == DigitsValue(SubSeq(text, 1, 4))
           m == DigitsValue(SubSeq(text, 6, 7))
           d == DigitsValue(SubSeq(text, 9, 10))
       IN y >= 1 /\ m \in 1..12 /\ d >= 1 /\ d <= DaysInMonth(y, m)

FixedCategories == {"Food", "Transport", "Rent", "Utilities", "Shopping", "Other"}

\* C8 (as claimed): add_expense with an amount <= 0, a category outside the
\* fixed set or a malformed date raises the validation error and leaves the
\* persisted table, and so the user's next id, as they were.
C8_InvalidAddRejected ==
    [][\A u \in UserIds, r \in AddRequests :
          (/\ \/ r.amount <= 0
              \/ r.category \notin FixedCategories
              \/ ~WellFormedDate(r.date)
           /\ Add(u, r.amount, r.date, r.category, r.description))
          => /\ last'.exc = "ValueError"
             /\ expensesFile' = expensesFile
             /\ NextExpenseIdForUser(expensesFile', u) =
                   NextExpenseIdForUser(expensesFile, u)]_vars

\* C9: delete_expense of a stored (U, K) returns True and leaves a table in
\* which find_expense(U, K) is None while every other row, every other find and
\* every other user's list are as before; for a key that is not stored it
\* returns False and leaves the table as it was.
C9_DeleteFrame ==
    \A u \in UserIds, k \in ExpenseIds :
        LET out == DeleteExpense(expensesFile, u, k)
            kept == SelectSeq(expensesFile, LAMBDA row : ~RowHasKey(row, u, k))
        IN IF KeyStored(expensesFile, u, k)
           THEN /\ out.exc = NoExc /\ out.value = TRUE
                /\ FindExpense(out.rows, u, k) = None
                /\ out.rows = kept
                /\ Len(out.rows) = Len(expensesFile) - 1
                /\ \A u2 \in UserIds, k2 \in ExpenseIds :
                      <<u2, k2>> # <<u, k>> =>
                         FindExpense(out.rows, u2, k2) = FindExpense(expensesFile, u2, k2)
                /\ \A u2 \in UserIds \ {u} :
                      ListForUser(out.rows, u2) = ListForUser(expensesFile, u2)
                /\ ListForUser(out.rows, u) =
                      SelectSeq(ListForUser(expensesFile, u),
                                LAMBDA e : e.expense_id # Str(k))
           ELSE /\ out.exc = NoExc /\ out.value = FALSE
                /\ out.rows = expensesFile

\* a delete has removed a record and left one of the same user and one of the
\* other user
C9_Witness ==
    /\ last.op = "delete" /\ last.value = TRUE
    /\ Len(expensesFile) = 2
    /\ \E u \in UserIds : deleted[u] /\ RowsOf(expensesFile, u) # {}
    /\ \E u \in UserIds : ~deleted[u] /\ RowsOf(expensesFile, u) # {}

\* whether add_expense rejects the field value among otherwise valid arguments
AddRejectsAmount(amount) ==
    AddExpense(<<>>, 1, amount, D_2024_01_01, "Food", "").exc # NoExc
AddRejectsDate(date) ==
    AddExpense(<<>>, 1, 1000, date, "Food", "").exc # NoExc
AddRejectsCategory(category) ==
    AddExpense(<<>>, 1, 1000, D_2024_01_01, category, "").exc # NoExc

Supplied(kwargs, f) == f \in DOMAIN kwargs

AnyFieldRejected(kwargs) ==
    \/ Supplied(kwargs, "amount") /\ AddRejectsAmount(kwargs.amount)
    \/ Supplied(kwargs, "date") /\ AddRejectsDate(kwargs.date)
    \/ Supplied(kwargs, "category") /\ AddRejectsCategory(kwargs.category)

C14_AmountReadBack ==
    /\ \A u \in UserIds :
          /\ \A i \in 1..Len(ListForUser(expensesFile, u)) :
                ListForUser(expensesFile, u)[i].amount > 0
          /\ \A expense_id \in ExpenseIds :
                FindExpense(expensesFile, u, expense_id) # None
                   => FindExpense(expensesFile, u, expense_id).amount > 0
    /\ (last.op \in {"add", "edit"} /\ last.exc = NoExc)
          => FindExpense(expensesFile, ParseInt(last.value.user_id),
                         ParseInt(last.value.expense_id)).amount
               = last.value.amount

(***************************************************************************)
(* Claims about the read-only operations (checked under SpecRead)          *)
(***************************************************************************)
\* the position in the table of the row a listed expense was loaded from
FilePosition(rows, e) ==
    CHOOSE i \in 1..Len(rows) : RowHasKey(rows[i], ParseInt(e.user_id),
                                          ParseInt(e.expense_id))

\* the calendar day a stored date text names, as year*10000 + month*100 + day
DateOf(e) == Strptime(e.date).key

\* l holds exactly the records of user_id in rows, ascending by date, the
\* records of one date in the order of their rows
IsListingOf(l, rows, user_id) ==
    /\ Len(l) = Cardinality(RowsOf(rows, user_id))
    /\ \A i \in 1..Len(l) :
          /\ l[i].user_id = Str(user_id)
          /\ \E k \in 1..Len(rows) : LoadAll(rows)[k] = l[i]
    /\ \A i, j \in 1..Len(l) :
          i < j => /\ l[i] # l[j]
                   /\ DateOf(l[i]) <= DateOf(l[j])
                   /\ DateOf(l[i]) = DateOf(l[j])
                         => FilePosition(rows, l[i]) < FilePosition(rows, l[j])

\* C11: list_for_user(U) returns exactly the records whose user_id is U,
\* ascending by date and, for equal dates, in the order of the table; it
\* returns the empty list when U has no record, and the table is the same
\* after the call: the list returned is the listing of the table as it is
\* after the call.  After Add(2024-03-05) then Add(2024-01-01) by one user
\* the list is [id 2, id 1].
C11_ListForUserSorted ==
    /\ \A u \in UserIds :
          /\ IsListingOf(ListForUser(expensesFile, u), expensesFile, u)
          /\ RowsOf(expensesFile, u) = {} => ListForUser(expensesFile, u) = <<>>
          /\ ( /\ Len(expensesFile) = 2
               /\ RowHasKey(expensesFile[1], u, 1)
               /\ expensesFile[1].date = D_2024_03_05
               /\ RowHasKey(expensesFile[2], u, 2)
               /\ expensesFile[2].date = D_2024_01_01 )
              => [i \in 1..2 |-> ListForUser(expensesFile, u)[i].expense_id]
                   = <<Str(2), Str(1)>>
    /\ last.op = "list"
          => \E u \in UserIds : /\ last.value = ListForUser(expensesFile, u)
                                /\ IsListingOf(last.value, expensesFile, u)

\* a list call returned three records of one user: the latest added comes
\* first, and the two of 5 March 2024 (written 2024-03-05 and 2024-3-5)
\* follow in the order they were added
C11_Witness ==
    /\ last.op = "list"
    /\ Len(last.value) = 3
    /\ [i \in 1..3 |-> last.value[i].expense_id] = <<Str(3), Str(1), Str(2)>>
    /\ last.value[2].date = D_2024_03_05
    /\ last.value[3].date = D_2024_3_5

\* C12: the table export_user_expenses(U, destination) writes, parsed back
\* with the same row format, is the same sequence of records (same fields,
\* same order) as list_for_user(U) gave on the table before the call, and
\* the call leaves the primary table as it was.
C12_ExportRoundTrip ==
    [][\A u \in UserIds, out_path \in OutPaths :
          Export(u, out_path)
             => /\ LoadAll(last'.value) = ListForUser(expensesFile, u)
                /\ expensesFile' = expensesFile]_vars

(***************************************************************************)
(* Claims about interleaved adds (checked under SpecRace)                  *)
(***************************************************************************)
\* C13: when two clients run add_expense with their steps interleaved (the
\* read for the next id, the second read, the write of the whole table), a
\* record may be lost to the last writer, but the persisted table never
\* holds two records with the same (user_id, expense_id).
C13_RaceKeepsKeysUnique ==
    \A i, j \in 1..Len(expensesFile) :
       ( /\ expensesFile[i].user_id = expensesFile[j].user_id
         /\ expensesFile[i].expense_id = expensesFile[j].expense_id ) => i = j

=============================================================================
